---- MODULE Spec2Model ----
(***************************************************************************)
(* A model of github.com/mailproto/textplain: the line wrapper (wrap.go),  *)
(* the whitespace normalizer (TreeConverter.fixSpacing) and the tree       *)
(* converter's pipeline (TreeConverter.Convert).  Texts are sequences of   *)
(* one-character strings; indices into a Go string are 0-based, as in the  *)
(* source, and Slice translates them.                                      *)
(***************************************************************************)
EXTENDS Integers, Sequences, FiniteSets, TLC

\* ------------------------------------------------------------------------
\* Characters
\* ------------------------------------------------------------------------
SP == " "
NL == "\n"
TAB == "\t"
STAR == "*"
LETTER == "a"

\* ------------------------------------------------------------------------
\* Bounds of the model
\* ------------------------------------------------------------------------
\* longest text handed to WordWrap
MaxTextLen == 7
\* largest line length handed to WordWrap
MaxLineLength == 4

\* all sequences over S of length at most n
SeqsUpTo(S, n) == UNION {[1..k -> S] : k \in 0..n}

\* ------------------------------------------------------------------------
\* Go's string primitives, as wrap.go and tree.go use them
\* ------------------------------------------------------------------------
\* s[lo:hi]
Slice(s, lo, hi) == SubSeq(s, lo + 1, hi)

\* s[lo:hi] is in range (Go panics otherwise)
SliceOK(s, lo, hi) == 0 <= lo /\ lo <= hi /\ hi <= Len(s)

\* strings.Split(txt, "\n")
RECURSIVE Split(_)
Split(txt) ==
    IF \A i \in 1..Len(txt) : txt[i] # NL
    THEN <<txt>>
    ELSE LET k == CHOOSE i \in 1..Len(txt) :
                      txt[i] = NL /\ \A j \in 1..(i - 1) : txt[j] # NL
         IN  <<SubSeq(txt, 1, k - 1)>> \o Split(SubSeq(txt, k + 1, Len(txt)))

\* strings.Join(lines, "\n")
RECURSIVE Join(_)
Join(lines) ==
    IF Len(lines) = 0 THEN <<>>
    ELSE IF Len(lines) = 1 THEN lines[1]
    ELSE lines[1] \o <<NL>> \o Join(Tail(lines))

\* strings.LastIndex(w, " "): 0-based, -1 when w holds no space
LastIndex(w) ==
    IF \A i \in 1..Len(w) : w[i] # SP
    THEN -1
    ELSE (CHOOSE i \in 1..Len(w) :
              w[i] = SP /\ \A j \in (i + 1)..Len(w) : w[j] # SP) - 1

\* ------------------------------------------------------------------------
\* WordWrap (wrap.go)
\* ------------------------------------------------------------------------
\* the mutant of WrapDisabled: only zero disables wrapping
WrapDisabledZeroOnly(n) == n = 0

\* "A line length of zero or less indicates no wrapping"
WrapDisabled(n) == n <= 0

\* the condition of the inner loop
LoopCond(line, n, s, e) == (Len(line) - e) > n /\ s < Len(line)

\* the mutant of NextEnd: endIndex is left where it is
NextEndStuck(line, n, e) == e

\* endIndex += lineLength, clamped to the last index of the line
NextEnd(line, n, e) == IF e + n >= Len(line) THEN Len(line) - 1 ELSE e + n

\* the mutant of NewIndex: a window without a space is cut at its end
NewIndexForced(line, s, e) ==
    LET ni == LastIndex(Slice(line, s, e + 1))
    IN  IF ni <= 0 /\ e - s > 0 THEN e - s ELSE ni

\* newIndex := strings.LastIndex(line[startIndex:endIndex+1], " ")
NewIndex(line, s, e) == LastIndex(Slice(line, s, e + 1))

\* the mutant of Chunk: the emitted piece is one character short
ChunkShort(line, s, ni) == Slice(line, s, s + ni - 1)

\* line[startIndex:startIndex+newIndex], the piece appended to final
Chunk(line, s, ni) == Slice(line, s, s + ni)

\* "clear any extra space": the first index >= s that holds no space
SkipSpaces(line, s) ==
    CHOOSE k \in s..Len(line) :
        /\ (k = Len(line) \/ line[k + 1] # SP)
        /\ \A j \in s..(k - 1) : line[j + 1] = SP

\* the inner loop on one line; acc is final so far
RECURSIVE WrapLine(_, _, _, _, _)
WrapLine(line, n, s, e, acc) ==
    IF LoopCond(line, n, s, e)
    THEN LET e2 == NextEnd(line, n, e)
         IN  IF ~SliceOK(line, s, e2 + 1)
             THEN [ok |-> FALSE, out |-> acc]
             ELSE LET ni == NewIndex(line, s, e2)
                  IN  IF ni <= 0
                      THEN WrapLine(line, n, s, e2, acc)
                      ELSE WrapLine(line, n, SkipSpaces(line, s + ni), e2,
                                    Append(acc, Chunk(line, s, ni)))
    ELSE [ok |-> TRUE, out |-> Append(acc, Slice(line, s, Len(line)))]

\* the outer loop over the lines, from line k on
RECURSIVE WrapLines(_, _, _, _)
WrapLines(ls, n, k, acc) ==
    IF k > Len(ls)
    THEN [ok |-> TRUE, val |-> Join(acc)]
    ELSE LET r == WrapLine(ls[k], n, 0, 0, acc)
         IN  IF r.ok THEN WrapLines(ls, n, k + 1, r.out)
             ELSE [ok |-> FALSE, val |-> <<>>]

\* WordWrap(txt, lineLength): ok is FALSE when the call panics
WordWrap(t, n) ==
    IF WrapDisabled(n) THEN [ok |-> TRUE, val |-> t]
    ELSE WrapLines(Split(t), n, 1, <<>>)

\* ------------------------------------------------------------------------
\* fixSpacing (tree.go)
\* ------------------------------------------------------------------------
\* U+034F, U+00AD and U+2007, the runes of the preheader filler
CGJ == "U+034F"
SHY == "U+00AD"
FSP == "U+2007"
Invisible == {CGJ, SHY, FSP}

\* s[k], 0-based
At(s, k) == s[k + 1]

\* var inList = (processed[0] == '*' && processed[1] == ' ')
InitialInList(runes) == At(runes, 0) = STAR /\ At(runes, 1) = SP

\* after a newline: if v == '\t' || v == ' ' { continue }
SwallowIndent(v) == v = TAB \/ v = SP

\* the mutant of SwallowBlank: a newline after two newlines is kept
SwallowBlankNever(p, idx, v) == FALSE

\* after a newline: if processed[idx-1] == '\n' && v == '\n' { continue }
SwallowBlank(p, idx, v) == At(p, idx - 1) = NL /\ v = NL

\* the lookahead of the list mode, from index j: TRUE when it reaches
\* continue tidyLoop
RECURSIVE ListAhead(_, _)
ListAhead(runes, j) ==
    IF j >= Len(runes) THEN FALSE
    ELSE IF At(runes, j) \in {TAB, SP, NL} THEN ListAhead(runes, j + 1)
    ELSE IF At(runes, j) = STAR /\ j + 1 < Len(runes) /\ At(runes, j + 1) = SP
         THEN TRUE
    ELSE ListAhead(runes, j + 1)

\* if runes[i-1] == '*' && v == ' ' { inList = true } else { inList = false }
NextInList(runes, i, v) == At(runes, i - 1) = STAR /\ v = SP

\* the whitespaceLoop from index j: the index the scan assigns to i before
\* continue tidyLoop, or -1 when the scan breaks or runs off the end
RECURSIVE InvisibleScan(_, _)
InvisibleScan(runes, j) ==
    IF j >= Len(runes) THEN -1
    ELSE IF At(runes, j) = SP THEN InvisibleScan(runes, j + 1)
    ELSE IF At(runes, j) \in Invisible THEN j
    ELSE -1

\* which branch the iteration at index i takes
FixCase(runes, i, p, idx, inL) ==
    LET v == At(runes, i)
    IN  IF At(p, idx) = NL /\ SwallowIndent(v) THEN "indent"
        ELSE IF At(p, idx) = NL /\ SwallowBlank(p, idx, v) THEN "blank"
        ELSE IF At(p, idx) = NL /\ inL /\ v = NL /\ ListAhead(runes, i)
             THEN "list"
        ELSE IF At(p, idx) = SP /\ v = SP THEN "space"
        ELSE IF At(p, idx) = SP /\ (v = TAB \/ v = NL) THEN "rewrite"
        ELSE IF v \in Invisible /\ InvisibleScan(runes, i) >= 0 THEN "invisible"
        ELSE "append"

\* inList after the iteration at index i
FixInList(runes, i, p, idx, inL) ==
    IF At(p, idx) = NL /\ FixCase(runes, i, p, idx, inL) \in {"invisible", "append"}
    THEN NextInList(runes, i, At(runes, i))
    ELSE inL

\* the mutant of FixProcessed: a space followed by a tab or newline is
\* kept and the newline is appended after it, with the rune itself
FixProcessedKeepsSpace(runes, i, p, idx, inL) ==
    LET c == FixCase(runes, i, p, idx, inL)
    IN  IF c = "rewrite" THEN Append(Append(p, NL), At(runes, i))
        ELSE IF c = "append" THEN Append(p, At(runes, i))
        ELSE p

\* processed after the iteration at index i
FixProcessed(runes, i, p, idx, inL) ==
    LET c == FixCase(runes, i, p, idx, inL)
    IN  IF c = "rewrite" THEN [p EXCEPT ![idx + 1] = NL]
        ELSE IF c = "append" THEN Append(p, At(runes, i))
        ELSE p

\* idx after the iteration at index i
FixIdx(runes, i, p, idx, inL) ==
    IF FixCase(runes, i, p, idx, inL) = "append" THEN idx + 1 ELSE idx

\* i at the start of the next iteration
FixNextI(runes, i, p, idx, inL) ==
    IF FixCase(runes, i, p, idx, inL) = "invisible"
    THEN InvisibleScan(runes, i) + 1
    ELSE i + 1

\* the tidyLoop from index i on
RECURSIVE TidyLoop(_, _, _, _, _)
TidyLoop(runes, i, p, idx, inL) ==
    IF i >= Len(runes) THEN p
    ELSE TidyLoop(runes,
                  FixNextI(runes, i, p, idx, inL),
                  FixProcessed(runes, i, p, idx, inL),
                  FixIdx(runes, i, p, idx, inL),
                  FixInList(runes, i, p, idx, inL))

\* fixSpacing(rt)
fixSpacing(runes) ==
    IF Len(runes) < 2 THEN runes
    ELSE TidyLoop(runes, 2, Slice(runes, 0, 2), 1, InitialInList(runes))

\* ------------------------------------------------------------------------
\* More of Go's string primitives
\* ------------------------------------------------------------------------
LPAREN == "("
RPAREN == ")"

\* the runes unicode.IsSpace accepts, of those the model writes
WhiteSpace == {SP, TAB, NL, FSP}

\* strings.TrimLeft(s, cutset)
RECURSIVE TrimLeft(_, _)
TrimLeft(s, cutset) ==
    IF Len(s) > 0 /\ s[1] \in cutset THEN TrimLeft(Tail(s), cutset) ELSE s

\* strings.TrimRight(s, cutset)
RECURSIVE TrimRight(_, _)
TrimRight(s, cutset) ==
    IF Len(s) > 0 /\ s[Len(s)] \in cutset
    THEN TrimRight(SubSeq(s, 1, Len(s) - 1), cutset)
    ELSE s

\* strings.Trim(s, cutset)
Trim(s, cutset) == TrimRight(TrimLeft(s, cutset), cutset)

\* strings.TrimSpace(s)
TrimSpace(s) == Trim(s, WhiteSpace)

\* strings.HasPrefix(s, prefix)
HasPrefix(s, prefix) ==
    Len(s) >= Len(prefix) /\ SubSeq(s, 1, Len(prefix)) = prefix

\* strings.TrimPrefix(s, prefix)
TrimPrefix(s, prefix) ==
    IF HasPrefix(s, prefix) THEN SubSeq(s, Len(prefix) + 1, Len(s)) ELSE s

\* strings.Repeat(c, count), c one character
Repeat(c, count) == [k \in 1..count |-> c]

\* strings.Join(parts, "")
RECURSIVE JoinEmpty(_)
JoinEmpty(parts) ==
    IF Len(parts) = 0 THEN <<>> ELSE parts[1] \o JoinEmpty(Tail(parts))

\* strings.ReplaceAll(s, old, new): the matches of old, left to right and
\* not overlapping
RECURSIVE ReplaceAll(_, _, _)
ReplaceAll(s, old, new) ==
    IF Len(s) < Len(old) THEN s
    ELSE IF HasPrefix(s, old)
         THEN new \o ReplaceAll(SubSeq(s, Len(old) + 1, Len(s)), old, new)
    ELSE <<s[1]>> \o ReplaceAll(Tail(s), old, new)

\* the largest member of a finite set of naturals, 0 when it is empty
MaxOf(S) == IF S = {} THEN 0 ELSE CHOOSE m \in S : \A x \in S : x <= m

\* ------------------------------------------------------------------------
\* The parsed document: html.Node as the converter reads it
\* ------------------------------------------------------------------------
\* a node: its Type, its DataAtom (tag), its Data (text and comment nodes),
\* the values of its href and alt attributes (empty when absent) and its
\* children in sibling order
TextNode(d) ==
    [type |-> "text", tag |-> "", data |-> d, href |-> <<>>, alt |-> <<>>,
     kids |-> <<>>]
CommentNode(d) ==
    [type |-> "comment", tag |-> "", data |-> d, href |-> <<>>, alt |-> <<>>,
     kids |-> <<>>]
Element(t, ks) ==
    [type |-> "element", tag |-> t, data |-> <<>>, href |-> <<>>, alt |-> <<>>,
     kids |-> ks]
AnchorNode(h, ks) ==
    [type |-> "element", tag |-> "a", data |-> <<>>, href |-> h, alt |-> <<>>,
     kids |-> ks]
ImgNode(a) ==
    [type |-> "element", tag |-> "img", data |-> <<>>, href |-> <<>>, alt |-> a,
     kids |-> <<>>]

\* getAttr(n, name) for the two attributes the converter reads
getAttr(n, name) == IF name = "href" THEN n.href ELSE n.alt

StartMarker ==
    <<"s", "t", "a", "r", "t", " ", "t", "e", "x", "t", "/", "h", "t", "m", "l">>
EndMarker ==
    <<"e", "n", "d", " ", "t", "e", "x", "t", "/", "h", "t", "m", "l">>
Mailto == <<"m", "a", "i", "l", "t", "o", ":">>

\* ------------------------------------------------------------------------
\* The fragment renderer: doConvert and its helpers (tree.go)
\* ------------------------------------------------------------------------
RECURSIVE doConvert(_)
RECURSIVE Walk(_, _, _)
RECURSIVE WalkStep(_, _, _)
RECURSIVE wrapSpans(_, _, _)
RECURSIVE ListWalk(_, _, _)
RECURSIVE containsImg(_)

\* a "start text/html" comment at index k: the index of the first later
\* sibling that is an "end text/html" comment, or k when there is none
HiddenEnd(kids, k) ==
    LET ends == {s \in (k + 1)..Len(kids) :
                     /\ kids[s].type = "comment"
                     /\ TrimSpace(kids[s].data) = EndMarker}
    IN  IF TrimSpace(kids[k].data) = StartMarker /\ ends # {}
        THEN CHOOSE s \in ends : \A s2 \in ends : s <= s2
        ELSE k

\* p and div: a newline is put before the block unless the last fragment,
\* trimmed of spaces and tabs, ends in one
ParagraphBreak(parts) ==
    IF Len(parts) > 0
    THEN LET p == Trim(parts[Len(parts)], {SP, TAB})
         IN  IF Len(p) = 0 \/ p[Len(p)] # NL
             THEN Append(parts, <<NL>>)
             ELSE parts
    ELSE parts

\* the mutant of containsImg: only the children of n are looked at
containsImgChild(n) ==
    \E k \in 1..Len(n.kids) :
        n.kids[k].type = "element" /\ n.kids[k].tag \in {"img", "image"}

\* the mutant of AnchorParts: the scheme prefix "mailto:" is kept
AnchorPartsKeepsMailto(c, more) ==
    LET href == getAttr(c, "href")
    IN  IF href = <<>> THEN more
        ELSE LET text == TrimSpace(JoinEmpty(more))
             IN  IF text = href THEN <<href>>
                 ELSE IF text = <<>>
                      THEN IF containsImg(c)
                           THEN << <<LPAREN, SP>> \o href \o <<SP, RPAREN>> >>
                           ELSE <<>>
                 ELSE <<text, <<SP, LPAREN, SP>>, TrimSpace(href), <<SP, RPAREN>>>>

\* the fragments of an anchor c whose children rendered as more
AnchorParts(c, more) ==
    LET href == getAttr(c, "href")
    IN  IF href = <<>> THEN more
        ELSE LET text == TrimSpace(JoinEmpty(more))
                 h == TrimPrefix(href, Mailto)
             IN  IF text = h THEN <<h>>
                 ELSE IF text = <<>>
                      THEN IF containsImg(c)
                           THEN << <<LPAREN, SP>> \o h \o <<SP, RPAREN>> >>
                           ELSE <<>>
                 ELSE <<text, <<SP, LPAREN, SP>>, TrimSpace(h), <<SP, RPAREN>>>>

\* containsImg(n)
containsImg(n) ==
    \E k \in 1..Len(n.kids) :
        \/ (n.kids[k].type = "element" /\ n.kids[k].tag \in {"img", "image"})
        \/ containsImg(n.kids[k])

\* the mutant of headerBlock: every level gets the delimiter line above
headerBlockAlwaysPrefix(n, blockChar, prefix) ==
    LET headerText == TrimSpace(JoinEmpty(doConvert(n)))
        ls == Split(headerText)
        maxSize == MaxOf({Len(TrimSpace(ls[k])) : k \in 1..Len(ls)})
        delimiter == Repeat(blockChar, maxSize)
    IN  <<<<NL, NL>>, delimiter, <<NL>>, headerText, <<NL>>, delimiter,
          <<NL, NL>>>>

\* headerBlock(n, blockChar, prefix)
headerBlock(n, blockChar, prefix) ==
    LET headerText == TrimSpace(JoinEmpty(doConvert(n)))
        ls == Split(headerText)
        maxSize == MaxOf({Len(TrimSpace(ls[k])) : k \in 1..Len(ls)})
        delimiter == Repeat(blockChar, maxSize)
    IN  <<<<NL, NL>>>>
        \o (IF prefix THEN <<delimiter, <<NL>>>> ELSE <<>>)
        \o <<headerText, <<NL>>, delimiter, <<NL, NL>>>>

\* listItem(n, prefix)
listItem(n, prefix) ==
    TrimSpace(prefix \o JoinEmpty(doConvert(n))) \o <<NL>>

\* unordered(idx)
unordered(n) == <<STAR, SP>>

\* the loop of listItems from child k on
ListWalk(kids, k, parts) ==
    IF k > Len(kids) THEN parts
    ELSE LET c == kids[k]
         IN  IF c.type = "element" /\ c.tag = "li"
             THEN ListWalk(kids, k + 1, Append(parts, listItem(c, unordered(k))))
             ELSE ListWalk(kids, k + 1, parts \o doConvert(c))

\* listItems(n, unordered)
listItems(n) == ListWalk(n.kids, 1, <<>>)

\* the mutant of SpanText: trailing whitespace is left as it is
SpanTextKept(span) == span

\* one span or text of a run, its trailing whitespace made one space
SpanText(span) ==
    LET trimmed == TrimRight(span, {NL, TAB, SP})
    IN  IF Len(trimmed) # Len(span) THEN trimmed \o <<SP>> ELSE span

\* the mutant of wrapSpans: at an element that is not a span it returns
\* that element, not the sibling before it
RECURSIVE wrapSpansPastStop(_, _, _)
wrapSpansPastStop(kids, k, acc) ==
    IF k > Len(kids) THEN [c |-> 0, parts |-> acc]
    ELSE LET c == kids[k]
         IN  IF c.type = "element" /\ c.tag # "span"
             THEN [c |-> k, parts |-> acc]
             ELSE LET span == IF c.type = "element" THEN JoinEmpty(doConvert(c))
                              ELSE IF c.type = "text" THEN c.data
                              ELSE <<>>
                  IN  wrapSpansPastStop(kids, k + 1, Append(acc, SpanText(span)))

\* wrapSpans(n), n the child at index k: c is the index of the node it
\* returns, 0 for nil
wrapSpans(kids, k, acc) ==
    IF k > Len(kids) THEN [c |-> 0, parts |-> acc]
    ELSE LET c == kids[k]
         IN  IF c.type = "element" /\ c.tag # "span"
             THEN [c |-> k - 1, parts |-> acc]
             ELSE LET span == IF c.type = "element" THEN JoinEmpty(doConvert(c))
                              ELSE IF c.type = "text" THEN c.data
                              ELSE <<>>
                  IN  wrapSpans(kids, k + 1, Append(acc, SpanText(span)))

\* one iteration of the loop of doConvert, at child k: the fragments after
\* it and the index of the child the loop visits next, 0 when the iteration
\* returns from doConvert
WalkStep(kids, k, parts) ==
    LET c == kids[k]
    IN  IF c.type = "comment"
        THEN [next |-> HiddenEnd(kids, k) + 1, parts |-> parts]
        ELSE IF c.type = "text"
        THEN [next |-> k + 1, parts |-> Append(parts, c.data) \o doConvert(c)]
        ELSE IF c.tag \in {"script", "style"}
        THEN [next |-> k + 1, parts |-> parts]
        ELSE IF c.tag \in {"p", "div"}
        THEN [next |-> k + 1,
              parts |-> ParagraphBreak(parts) \o doConvert(c) \o <<<<NL, NL>>>>]
        ELSE IF c.tag \in {"ul", "ol"}
        THEN [next |-> k + 1, parts |-> parts \o listItems(c)]
        ELSE IF c.tag = "li"
        THEN [next |-> k + 1, parts |-> Append(parts, listItem(c, <<STAR, SP>>))]
        ELSE IF c.tag = "span"
        THEN LET r == wrapSpans(kids, k, <<>>)
             IN  [next |-> IF r.c = 0 THEN 0 ELSE r.c + 1,
                  parts |-> parts \o r.parts]
        ELSE IF c.tag = "br"
        THEN [next |-> k + 1, parts |-> Append(parts, <<NL>>)]
        ELSE IF c.tag = "h1"
        THEN [next |-> k + 1, parts |-> parts \o headerBlock(c, STAR, TRUE)]
        ELSE IF c.tag = "h2"
        THEN [next |-> k + 1, parts |-> parts \o headerBlock(c, "-", TRUE)]
        ELSE IF c.tag \in {"h3", "h4", "h5", "h6"}
        THEN [next |-> k + 1, parts |-> parts \o headerBlock(c, "-", FALSE)]
        ELSE IF c.tag \in {"img", "image"}
        THEN [next |-> k + 1,
              parts |-> IF getAttr(c, "alt") # <<>>
                        THEN Append(parts, TrimSpace(getAttr(c, "alt")))
                        ELSE parts]
        ELSE IF c.tag = "a"
        THEN [next |-> k + 1, parts |-> parts \o AnchorParts(c, doConvert(c))]
        ELSE [next |-> k + 1, parts |-> parts \o doConvert(c)]

\* the loop of doConvert from child k on
Walk(kids, k, parts) ==
    IF k > Len(kids) THEN parts
    ELSE LET s == WalkStep(kids, k, parts)
         IN  IF s.next = 0 THEN s.parts ELSE Walk(kids, s.next, s.parts)

\* doConvert(n)
doConvert(n) == Walk(n.kids, 1, <<>>)

\* findBody(n): the loop tests n only while it visits a child of n, so a
\* body element without children is not found; <<>> stands for nil
RECURSIVE findBody(_)
RECURSIVE FindBodyFrom(_, _)
FindBodyFrom(n, k) ==
    IF k > Len(n.kids) THEN <<>>
    ELSE IF n.type = "element" /\ n.tag = "body" THEN <<n>>
    ELSE IF findBody(n.kids[k]) # <<>> THEN findBody(n.kids[k])
    ELSE FindBodyFrom(n, k + 1)
findBody(n) == FindBodyFrom(n, 1)

\* what html.Parse returns for a document whose body has the children ks
ParsedDocument(ks) ==
    [type |-> "document", tag |-> "", data |-> <<>>, href |-> <<>>,
     alt |-> <<>>,
     kids |-> <<Element("html", <<Element("head", <<>>), Element("body", ks)>>)>>]

\* the error values of the two converters: nil and ErrBodyNotFound
NoError == "nil"
ErrBodyNotFound == "could not find a body element in your html document"

\* scanForBody(n, depth) of RegexpConverter.Convert, from child k of n on:
\* found is bodyElement so far, <<>> for nil.  Like findBody it tests n only
\* while it visits a child of n; it does not stop at the first body it
\* assigns, and it does not scan below depth 5.
RECURSIVE scanForBody(_, _, _)
RECURSIVE ScanKids(_, _, _, _)
ScanKids(n, depth, k, found) ==
    IF k > Len(n.kids) THEN found
    ELSE IF n.type = "element" /\ n.tag = "body" THEN <<n>>
    ELSE ScanKids(n, depth, k + 1,
                  IF depth < 5
                  THEN scanForBody(n.kids[k], depth + 1, found)
                  ELSE found)
scanForBody(n, depth, found) == ScanKids(n, depth, 1, found)

\* bodyElement of RegexpConverter.Convert for the parsed document doc
bodyElement(doc) ==
    IF doc.type = "element" /\ doc.tag = "body" THEN <<doc>>
    ELSE scanForBody(doc, 0, <<>>)

\* what html.Parse returns for a document whose head has the children hs
\* and whose body has the children ks
ParsedPage(hs, ks) ==
    [type |-> "document", tag |-> "", data |-> <<>>, href |-> <<>>,
     alt |-> <<>>,
     kids |-> <<Element("html", <<Element("head", hs), Element("body", ks)>>)>>]

\* ------------------------------------------------------------------------
\* State
\* ------------------------------------------------------------------------
VARIABLES
    pc,           \* position in the running call
    txt,          \* WordWrap: the argument txt
    lineLength,   \* WordWrap: the argument lineLength
    lines,        \* WordWrap: strings.Split(txt, "\n")
    lineNo,       \* WordWrap: the line the outer loop is at (1-based)
    startIndex,   \* WordWrap: startIndex
    endIndex,     \* WordWrap: endIndex
    final,        \* WordWrap: final
    wrapped,      \* WordWrap: the value returned
    rewrapped,    \* the result of WordWrap(wrapped, lineLength)
    rt,           \* fixSpacing: the argument rt, as runes
    processed,    \* fixSpacing: processed
    idx,          \* fixSpacing: idx
    i,            \* fixSpacing: the index i of tidyLoop
    inList,       \* fixSpacing: inList
    fixed,        \* fixSpacing: the value returned
    root,         \* Convert: the tree html.Parse returned
    convLength,   \* Convert: the argument lineLength
    body,         \* Convert: body, <<>> for nil
    cursor,       \* doConvert(body): the child c the loop is at (1-based)
    convLines,    \* Convert: lines, the fragments doConvert returned
    text,         \* Convert: text
    convWrapped,  \* Convert: wrapped
    returned,     \* Convert: the text returned
    convErr,      \* Convert: the error returned
    regexpReturned, \* RegexpConverter.Convert: the text returned
    regexpErr     \* RegexpConverter.Convert: the error returned

wrapVars == <<txt, lineLength, lines, lineNo, startIndex, endIndex, final,
              wrapped, rewrapped>>
fixVars == <<rt, processed, idx, i, inList, fixed>>
convVars == <<root, convLength, body, cursor, convLines, text, convWrapped,
              returned, convErr, regexpReturned, regexpErr>>
vars == <<pc, wrapVars, fixVars, convVars>>

\* no call of Convert has returned yet
NoCallReturned ==
    /\ convErr = NoError
    /\ regexpReturned = <<>>
    /\ regexpErr = NoError

\* the variables of WordWrap while no call of it is modelled
WrapIdle ==
    /\ txt = <<>>
    /\ lineLength = 0
    /\ lines = <<>>
    /\ lineNo = 0
    /\ startIndex = 0
    /\ endIndex = 0
    /\ final = <<>>
    /\ wrapped = <<>>
    /\ rewrapped = [ok |-> TRUE, val |-> <<>>]

\* the variables of Convert while no call of it is modelled
ConvIdle ==
    /\ root = ParsedDocument(<<>>)
    /\ convLength = 0
    /\ body = <<>>
    /\ cursor = 0
    /\ convLines = <<>>
    /\ text = <<>>
    /\ convWrapped = <<>>
    /\ returned = <<>>
    /\ NoCallReturned

\* the variables of fixSpacing while no call of it is modelled
FixIdle ==
    /\ rt = <<>>
    /\ processed = <<>>
    /\ idx = 0
    /\ i = 0
    /\ inList = FALSE
    /\ fixed = <<>>

\* ------------------------------------------------------------------------
\* WordWrap, one step of its loops at a time
\* ------------------------------------------------------------------------
WrapAlphabet == {LETTER, SP, NL}

WrapInit ==
    /\ txt \in SeqsUpTo(WrapAlphabet, MaxTextLen)
    /\ lineLength \in -1..MaxLineLength
    /\ pc = "start"
    /\ lines = <<>>
    /\ lineNo = 0
    /\ startIndex = 0
    /\ endIndex = 0
    /\ final = <<>>
    /\ wrapped = <<>>
    /\ rewrapped = [ok |-> TRUE, val |-> <<>>]
    /\ FixIdle
    /\ ConvIdle

\* lineLength <= 0: return txt
WrapReturnUnchanged ==
    /\ pc = "start"
    /\ WrapDisabled(lineLength)
    /\ wrapped' = txt
    /\ pc' = "returned"
    /\ UNCHANGED <<txt, lineLength, lines, lineNo, startIndex, endIndex, final,
                   rewrapped, fixVars, convVars>>

\* split the text and enter the first line
WrapBegin ==
    /\ pc = "start"
    /\ ~WrapDisabled(lineLength)
    /\ lines' = Split(txt)
    /\ lineNo' = 1
    /\ startIndex' = 0
    /\ endIndex' = 0
    /\ final' = <<>>
    /\ pc' = "line"
    /\ UNCHANGED <<txt, lineLength, wrapped, rewrapped, fixVars, convVars>>

\* an iteration whose window line[startIndex:endIndex+1] is out of range
WrapPanic ==
    /\ pc = "line"
    /\ LoopCond(lines[lineNo], lineLength, startIndex, endIndex)
    /\ LET e2 == NextEnd(lines[lineNo], lineLength, endIndex)
       IN  /\ ~SliceOK(lines[lineNo], startIndex, e2 + 1)
           /\ endIndex' = e2
    /\ pc' = "panic"
    /\ UNCHANGED <<txt, lineLength, lines, lineNo, startIndex, final, wrapped,
                   rewrapped, fixVars, convVars>>

\* an iteration that finds no space to break on: continue
WrapNoBreak ==
    /\ pc = "line"
    /\ LoopCond(lines[lineNo], lineLength, startIndex, endIndex)
    /\ LET e2 == NextEnd(lines[lineNo], lineLength, endIndex)
       IN  /\ SliceOK(lines[lineNo], startIndex, e2 + 1)
           /\ NewIndex(lines[lineNo], startIndex, e2) <= 0
           /\ endIndex' = e2
    /\ UNCHANGED <<txt, lineLength, pc, lines, lineNo, startIndex, final,
                   wrapped, rewrapped, fixVars, convVars>>

\* an iteration that breaks the line at the last space of the window
WrapBreak ==
    /\ pc = "line"
    /\ LoopCond(lines[lineNo], lineLength, startIndex, endIndex)
    /\ LET line == lines[lineNo]
           e2 == NextEnd(line, lineLength, endIndex)
       IN  /\ SliceOK(line, startIndex, e2 + 1)
           /\ LET ni == NewIndex(line, startIndex, e2)
              IN  /\ ni > 0
                  /\ final' = Append(final, Chunk(line, startIndex, ni))
                  /\ startIndex' = SkipSpaces(line, startIndex + ni)
           /\ endIndex' = e2
    /\ UNCHANGED <<txt, lineLength, pc, lines, lineNo, wrapped, rewrapped, fixVars, convVars>>

\* the loop is over: append the rest of the line, go to the next line
WrapNextLine ==
    /\ pc = "line"
    /\ ~LoopCond(lines[lineNo], lineLength, startIndex, endIndex)
    /\ lineNo < Len(lines)
    /\ final' = Append(final, Slice(lines[lineNo], startIndex, Len(lines[lineNo])))
    /\ lineNo' = lineNo + 1
    /\ startIndex' = 0
    /\ endIndex' = 0
    /\ UNCHANGED <<txt, lineLength, pc, lines, wrapped, rewrapped, fixVars, convVars>>

\* the last line is done: return strings.Join(final, "\n")
WrapReturn ==
    /\ pc = "line"
    /\ ~LoopCond(lines[lineNo], lineLength, startIndex, endIndex)
    /\ lineNo = Len(lines)
    /\ final' = Append(final, Slice(lines[lineNo], startIndex, Len(lines[lineNo])))
    /\ wrapped' = Join(final')
    /\ pc' = "returned"
    /\ UNCHANGED <<txt, lineLength, lines, lineNo, startIndex, endIndex,
                   rewrapped, fixVars, convVars>>

\* the caller wraps the returned text again at the same length
WrapAgain ==
    /\ pc = "returned"
    /\ rewrapped' = WordWrap(wrapped, lineLength)
    /\ pc' = "rewrapped"
    /\ UNCHANGED <<txt, lineLength, lines, lineNo, startIndex, endIndex, final,
                   wrapped, fixVars, convVars>>

WrapNext ==
    \/ WrapReturnUnchanged
    \/ WrapBegin
    \/ WrapPanic
    \/ WrapNoBreak
    \/ WrapBreak
    \/ WrapNextLine
    \/ WrapReturn
    \/ WrapAgain

WrapSpec == WrapInit /\ [][WrapNext]_vars

\* the stepped loop and the operator WordWrap compute the same call
WrapStepsAgree ==
    /\ pc \in {"returned", "rewrapped"} =>
           WordWrap(txt, lineLength) = [ok |-> TRUE, val |-> wrapped]
    /\ pc = "panic" => ~WordWrap(txt, lineLength).ok

\* ------------------------------------------------------------------------
\* fixSpacing, one iteration of tidyLoop at a time
\* ------------------------------------------------------------------------
\* longest text handed to fixSpacing
MaxRunes == 5

\* longest text after the marker "* " of a text that starts a list
MaxListTail == 5

FixAlphabet == {LETTER, SP, NL, TAB, STAR, CGJ, FSP}
ListAlphabet == {LETTER, SP, NL, STAR}

\* the texts handed to fixSpacing: every short text, and the texts that
\* start with a list marker
FixTexts ==
    SeqsUpTo(FixAlphabet, MaxRunes)
    \cup {<<STAR, SP>> \o t : t \in SeqsUpTo(ListAlphabet, MaxListTail)}

FixInit ==
    /\ rt \in FixTexts
    /\ pc = "fix"
    /\ processed = <<>>
    /\ idx = 0
    /\ i = 0
    /\ inList = FALSE
    /\ fixed = <<>>
    /\ WrapIdle
    /\ ConvIdle

\* if len(runes) < 2 { return rt }
FixShort ==
    /\ pc = "fix"
    /\ Len(rt) < 2
    /\ fixed' = rt
    /\ pc' = "fixed"
    /\ UNCHANGED <<rt, processed, idx, i, inList, wrapVars, convVars>>

\* processed starts as the first two runes, unexamined
FixBegin ==
    /\ pc = "fix"
    /\ Len(rt) >= 2
    /\ processed' = Slice(rt, 0, 2)
    /\ idx' = 1
    /\ inList' = InitialInList(rt)
    /\ i' = 2
    /\ pc' = "tidy"
    /\ UNCHANGED <<rt, fixed, wrapVars, convVars>>

\* tidyLoop is at an iteration that takes the branch c
FixAt(c) ==
    /\ pc = "tidy"
    /\ i < Len(rt)
    /\ FixCase(rt, i, processed, idx, inList) = c

\* what one iteration of tidyLoop assigns
FixIteration ==
    /\ processed' = FixProcessed(rt, i, processed, idx, inList)
    /\ idx' = FixIdx(rt, i, processed, idx, inList)
    /\ inList' = FixInList(rt, i, processed, idx, inList)
    /\ i' = FixNextI(rt, i, processed, idx, inList)
    /\ UNCHANGED <<pc, rt, fixed, wrapVars, convVars>>

\* a space or tab after a newline is dropped
FixSwallowIndent ==
    /\ FixAt("indent")
    /\ FixIteration

\* a newline after two newlines is dropped
FixSwallowBlank ==
    /\ FixAt("blank")
    /\ FixIteration

\* in list mode a newline is dropped when the lookahead finds a marker
FixSwallowListNewline ==
    /\ FixAt("list")
    /\ FixIteration

\* a space after a space is dropped
FixSwallowSpace ==
    /\ FixAt("space")
    /\ FixIteration

\* a tab or newline after a space turns that space into a newline
FixRewriteSpace ==
    /\ FixAt("rewrite")
    /\ FixIteration

\* an invisible rune is dropped
FixDropInvisible ==
    /\ FixAt("invisible")
    /\ FixIteration

\* the rune is appended to processed
FixAppend ==
    /\ FixAt("append")
    /\ FixIteration

\* return string(processed)
FixReturn ==
    /\ pc = "tidy"
    /\ i >= Len(rt)
    /\ fixed' = processed
    /\ pc' = "fixed"
    /\ UNCHANGED <<rt, processed, idx, i, inList, wrapVars, convVars>>

FixNext ==
    \/ FixShort
    \/ FixBegin
    \/ FixSwallowIndent
    \/ FixSwallowBlank
    \/ FixSwallowListNewline
    \/ FixSwallowSpace
    \/ FixRewriteSpace
    \/ FixDropInvisible
    \/ FixAppend
    \/ FixReturn

FixSpec == FixInit /\ [][FixNext]_vars

\* the stepped loop and the operator fixSpacing compute the same call
FixStepsAgree == pc = "fixed" => fixed = fixSpacing(rt)

\* ------------------------------------------------------------------------
\* TreeConverter.Convert, one statement at a time
\* ------------------------------------------------------------------------
\* DefaultLineLength
DefaultLineLength == 65
\* longest text of a document that is one text node
MaxDocText == 4
\* most children of the body of a document built from ConvNodes
MaxKids == 2

ConvAlphabet == {LETTER, SP, NL, LPAREN, RPAREN}

\* the nodes the bodies are built from
ConvNodes ==
    { TextNode(<<LETTER>>),
      TextNode(<<LETTER, SP, LETTER, LETTER, SP, LETTER>>),
      TextNode(<<SP>>),
      Element("br", <<>>),
      Element("p", <<TextNode(<<LETTER>>)>>),
      Element("span", <<TextNode(<<LETTER, SP>>)>>),
      AnchorNode(<<"b">>, <<TextNode(<<LETTER>>)>>),
      Element("ul", <<Element("li", <<TextNode(<<LETTER>>)>>)>>),
      Element("h1", <<TextNode(<<LETTER>>)>>),
      ImgNode(<<LETTER>>),
      CommentNode(StartMarker),
      CommentNode(EndMarker),
      Element("script", <<TextNode(<<LETTER>>)>>) }

\* the parser merges adjacent text: no two text nodes are siblings
NoAdjacentText(ks) ==
    \A k \in 1..(Len(ks) - 1) : ~(ks[k].type = "text" /\ ks[k + 1].type = "text")

\* the bodies: one text node of any text, or a few nodes of ConvNodes
ConvBodies ==
    {<<TextNode(d)>> : d \in SeqsUpTo(ConvAlphabet, MaxDocText) \ {<<>>}}
    \cup {ks \in SeqsUpTo(ConvNodes, MaxKids) : NoAdjacentText(ks)}

ConvLengths == {0, MaxLineLength, DefaultLineLength}

Init ==
    /\ root \in {ParsedDocument(ks) : ks \in ConvBodies}
    /\ convLength \in ConvLengths
    /\ pc = "convert"
    /\ body = <<>>
    /\ cursor = 0
    /\ convLines = <<>>
    /\ text = <<>>
    /\ convWrapped = <<>>
    /\ returned = <<>>
    /\ NoCallReturned
    /\ WrapIdle
    /\ FixIdle

\* body == nil: return "", nil
ConvertNoBody ==
    /\ pc = "convert"
    /\ findBody(root) = <<>>
    /\ returned' = <<>>
    /\ convErr' = NoError
    /\ pc' = "done"
    /\ UNCHANGED <<root, convLength, regexpReturned, regexpErr, cursor, body, convLines, text, convWrapped,
                   wrapVars, fixVars>>

\* body := t.findBody(root)
ConvertFindBody ==
    /\ pc = "convert"
    /\ findBody(root) # <<>>
    /\ body' = findBody(root)
    /\ pc' = "render"
    /\ UNCHANGED <<root, convLength, convErr, regexpReturned, regexpErr, cursor, convLines, text, convWrapped, returned,
                   wrapVars, fixVars>>

\* lines, err := t.doConvert(body)
ConvertRender ==
    /\ pc = "render"
    /\ convLines' = doConvert(body[1])
    /\ pc' = "normalize"
    /\ UNCHANGED <<root, convLength, convErr, regexpReturned, regexpErr, cursor, body, text, convWrapped, returned,
                   wrapVars, fixVars>>

\* text := t.fixSpacing(strings.Join(lines, ""))
ConvertFixSpacing ==
    /\ pc = "normalize"
    /\ text' = fixSpacing(JoinEmpty(convLines))
    /\ pc' = "wrap"
    /\ UNCHANGED <<root, convLength, convErr, regexpReturned, regexpErr, cursor, body, convLines, convWrapped, returned,
                   wrapVars, fixVars>>

\* wrapped := WordWrap(strings.TrimSpace(text), lineLength)
ConvertWordWrap ==
    /\ pc = "wrap"
    /\ convWrapped' = WordWrap(TrimSpace(text), convLength).val
    /\ pc' = IF WordWrap(TrimSpace(text), convLength).ok THEN "open" ELSE "panic"
    /\ UNCHANGED <<root, convLength, convErr, regexpReturned, regexpErr, cursor, body, convLines, text, returned,
                   wrapVars, fixVars>>

\* wrapped = strings.ReplaceAll(wrapped, "(\n", "\n( ")
ConvertOpenBraces ==
    /\ pc = "open"
    /\ convWrapped' = ReplaceAll(convWrapped, <<LPAREN, NL>>, <<NL, LPAREN, SP>>)
    /\ pc' = "close"
    /\ UNCHANGED <<root, convLength, convErr, regexpReturned, regexpErr, cursor, body, convLines, text, returned,
                   wrapVars, fixVars>>

\* wrapped = strings.ReplaceAll(wrapped, "\n)", " )\n"); return wrapped, nil
ConvertCloseBraces ==
    /\ pc = "close"
    /\ convWrapped' = ReplaceAll(convWrapped, <<NL, RPAREN>>, <<SP, RPAREN, NL>>)
    /\ returned' = convWrapped'
    /\ convErr' = NoError
    /\ pc' = "done"
    /\ UNCHANGED <<root, convLength, regexpReturned, regexpErr, cursor, body, convLines, text, wrapVars, fixVars>>

Next ==
    \/ ConvertNoBody
    \/ ConvertFindBody
    \/ ConvertRender
    \/ ConvertFixSpacing
    \/ ConvertWordWrap
    \/ ConvertOpenBraces
    \/ ConvertCloseBraces

Spec == Init /\ [][Next]_vars

\* ------------------------------------------------------------------------
\* Convert on documents of one kind of element each
\* ------------------------------------------------------------------------
\* most items of a list
MaxItems == 3

\* the texts of the items and the whitespace that follows an item in the
\* source
ItemTexts == {<<LETTER>>, <<LETTER, SP, LETTER>>}
ItemGaps == {<<>>, <<NL>>, <<SP, TAB, NL, SP>>}

\* the children the parser builds for elements written one after the
\* other, nodes[k] followed by the whitespace gaps[k]
RECURSIVE Spaced(_, _)
Spaced(nodes, gaps) ==
    IF Len(nodes) = 0 THEN <<>>
    ELSE <<nodes[1]>>
         \o (IF gaps[1] = <<>> THEN <<>> ELSE <<TextNode(gaps[1])>>)
         \o Spaced(Tail(nodes), Tail(gaps))

ItemRuns ==
    UNION {{Spaced([k \in 1..n |-> Element("li", <<TextNode(items[k])>>)], gaps)
               : items \in [1..n -> ItemTexts], gaps \in [1..n -> ItemGaps]}
           : n \in 1..MaxItems}

\* the bodies that are a list: bare items, or one ul or ol that holds them
ListBodies ==
    ItemRuns
    \cup {<<Element("ul", ks)>> : ks \in ItemRuns}
    \cup {<<Element("ol", ks)>> : ks \in ItemRuns}

\* the texts of the paragraphs and the whitespace that follows a paragraph
\* in the source
ParaTexts ==
    { <<LETTER>>, <<LETTER, SP, LETTER>>, <<SP, LETTER, NL>>,
      <<RPAREN, LETTER>>, <<LETTER, LPAREN>> }
ParaGaps == {<<>>, <<SP>>, <<NL>>, <<NL, NL, NL, TAB>>}
ParaTags == {"p", "div"}

\* the bodies that are one paragraph or two
ParagraphBodies ==
    UNION {{Spaced([k \in 1..n |-> Element(tags[k], <<TextNode(texts[k])>>)],
                   [k \in 1..n |-> gap])
               : tags \in [1..n -> ParaTags], texts \in [1..n -> ParaTexts],
                 gap \in ParaGaps}
           : n \in 1..2}

\* the href attributes of the anchors: absent, plain, with whitespace
\* around it, with the scheme mailto:, equal to an inner text
AnchorHrefs ==
    { <<>>, <<"b">>, <<SP, "b", SP>>, Mailto \o <<"b">>, Mailto, <<SP>>,
      <<LETTER>>, <<SP, LETTER>>, Mailto \o <<LETTER>> }

\* the children of the anchors: none, a text, a text in a span, an image
\* with and without alt text, an image inside a span
AnchorKids ==
    { <<>>,
      <<TextNode(<<LETTER>>)>>,
      <<TextNode(<<SP, LETTER, NL>>)>>,
      <<TextNode(<<"A">>)>>,
      <<TextNode(<<SP>>)>>,
      <<Element("span", <<TextNode(<<LETTER>>)>>)>>,
      <<ImgNode(<<>>)>>,
      <<ImgNode(<<LETTER>>)>>,
      <<Element("span", <<ImgNode(<<>>)>>)>>,
      <<TextNode(<<SP>>), ImgNode(<<>>)>> }

\* the bodies that are one anchor
AnchorBodies == {<<AnchorNode(h, ks)>> : h \in AnchorHrefs, ks \in AnchorKids}

\* the levels of the headings and their children: no child, one line, one
\* line with whitespace around it, two words, lines of different lengths
\* made by a br and by a newline of the text, a span
HeadingTags == {"h1", "h2", "h3", "h4", "h5", "h6"}
HeadingKids ==
    { <<>>,
      <<TextNode(<<LETTER>>)>>,
      <<TextNode(<<NL, LETTER, LETTER, SP>>)>>,
      <<TextNode(<<LETTER, SP, LETTER>>)>>,
      <<TextNode(<<LETTER, LETTER, LETTER>>), Element("br", <<>>),
        TextNode(<<LETTER>>)>>,
      <<TextNode(<<LETTER, NL, SP, LETTER, LETTER, SP>>)>>,
      <<TextNode(<<SP>>), Element("span", <<TextNode(<<LETTER, SP>>)>>)>> }

\* the bodies that are one heading
HeadingBodies == {<<Element(t, ks)>> : t \in HeadingTags, ks \in HeadingKids}

\* the text of the nodes that stand between the markers of a hidden block
HIDDEN == "b"

\* what stands before the start marker, between the markers and after the
\* end marker
BeforeHidden ==
    { <<>>,
      <<TextNode(<<LETTER>>)>>,
      <<Element("p", <<TextNode(<<LETTER>>)>>)>>,
      <<Element("span", <<TextNode(<<LETTER>>)>>)>> }
InsideHidden ==
    { <<TextNode(<<HIDDEN>>)>>,
      <<Element("p", <<TextNode(<<HIDDEN>>)>>)>>,
      <<Element("span", <<TextNode(<<HIDDEN>>)>>)>>,
      <<Element("p", <<TextNode(<<HIDDEN>>)>>), TextNode(<<HIDDEN>>)>> }
AfterHidden == {<<>>, <<TextNode(<<LETTER>>)>>}

\* children that hold a hidden block
HiddenRuns ==
    {before \o <<CommentNode(<<SP>> \o StartMarker \o <<SP>>)>> \o inside
         \o <<CommentNode(EndMarker)>> \o after
        : before \in BeforeHidden, inside \in InsideHidden,
          after \in AfterHidden}

\* the bodies that hold a hidden block, as their own children or as those
\* of a div
HiddenBodies == HiddenRuns \cup {<<Element("div", ks)>> : ks \in HiddenRuns}

\* the bodies of the documents, the empty document among them
RenderBodies ==
    {<<>>} \cup ListBodies \cup ParagraphBodies \cup AnchorBodies
    \cup HeadingBodies \cup HiddenBodies

RenderInit ==
    /\ root \in {ParsedDocument(ks) : ks \in RenderBodies}
    /\ convLength \in ConvLengths
    /\ pc = "convert"
    /\ body = <<>>
    /\ cursor = 0
    /\ convLines = <<>>
    /\ text = <<>>
    /\ convWrapped = <<>>
    /\ returned = <<>>
    /\ NoCallReturned
    /\ WrapIdle
    /\ FixIdle

RenderSpec == RenderInit /\ [][Next]_vars

\* ------------------------------------------------------------------------
\* Convert on lists with untidy items and on runs of spans
\* ------------------------------------------------------------------------
\* the contents of the items: with whitespace before and after the text,
\* whitespace only, and (in UntidyItems) no content at all
UntidyTexts ==
    { <<LETTER>>, <<SP, LETTER>>, <<NL, LETTER>>, <<LETTER, SP>>, <<SP>>,
      <<SP, SP, LETTER, NL>> }
UntidyItems ==
    {Element("li", <<>>)} \cup {Element("li", <<TextNode(t)>>) : t \in UntidyTexts}

\* one item or two, one after the other
UntidyRuns == UNION {[1..n -> UntidyItems] : n \in 1..2}

\* the bodies that are a list of such items: bare, or in one ul or ol
UntidyLists ==
    UntidyRuns
    \cup {<<Element("ul", ks)>> : ks \in UntidyRuns}
    \cup {<<Element("ol", ks)>> : ks \in UntidyRuns}

\* the contents of the spans of a run and the texts between two spans:
\* newlines and tabs after the text, before it, and none
SpanTexts ==
    { <<LETTER>>, <<LETTER, NL>>, <<LETTER, SP, NL, TAB>>, <<NL, LETTER>>,
      <<SP, LETTER>>, <<TAB, LETTER>> }
SpanGaps ==
    { <<>>, <<SP>>, <<NL>>, <<NL, TAB, NL>>, <<"b">>, <<"b", NL>>,
      <<NL, "b">> }

\* one span, or two spans and what stands between them
SpanRuns ==
    {<<Element("span", <<TextNode(t)>>)>> : t \in SpanTexts}
    \cup {Spaced(<<Element("span", <<TextNode(t1)>>),
                   Element("span", <<TextNode(t2)>>)>>, <<gap, <<>>>>)
              : t1 \in SpanTexts, t2 \in SpanTexts, gap \in SpanGaps}

\* the bodies that are a run of spans, as their own children or as those
\* of a paragraph
SpanBodies == SpanRuns \cup {<<Element("p", ks)>> : ks \in SpanRuns}

\* most children of a body whose children are told apart by their texts
MaxMembers == 3

\* the text of the k-th child of such a body
MemberLetters == <<"a", "b", "c", "d", "e">>

\* the k-th child, of one of the kinds: a span, a text, a paragraph, a list
\* item, a heading, a comment, a script
MemberKinds == {"span", "text", "p", "li", "h3", "comment", "script"}
Member(kind, k) ==
    IF kind = "text" THEN TextNode(<<MemberLetters[k]>>)
    ELSE IF kind = "comment" THEN CommentNode(<<MemberLetters[k]>>)
    ELSE Element(kind, <<TextNode(<<MemberLetters[k]>>)>>)

\* the bodies that hold a span among members of these kinds
MemberBodies ==
    UNION {{ks \in {[k \in 1..n |-> Member(kinds[k], k)]
                       : kinds \in [1..n -> MemberKinds]}
                : /\ NoAdjacentText(ks)
                  /\ \E k \in 1..n : ks[k].tag = "span"}
           : n \in 1..MaxMembers}

\* the inner texts and the hrefs of links that WordWrap has to break: a
\* short and a long href, and an href that holds a space
LinkTexts == {<<LETTER>>, <<LETTER, LETTER>>}
LinkHrefs == {<<"b">>, <<"b", "b", "b">>, <<"b", "b", "b", SP, "c">>}

\* the bodies that are one link, alone or between two texts
LinkBodies ==
    {<<AnchorNode(h, <<TextNode(t)>>)>> : h \in LinkHrefs, t \in LinkTexts}
    \cup {<<TextNode(<<LETTER, SP>>), AnchorNode(h, <<TextNode(t)>>),
            TextNode(<<SP, LETTER>>)>> : h \in LinkHrefs, t \in LinkTexts}

\* ordinary text with parentheses, and line break elements
ParenNodes ==
    { TextNode(<<LETTER, LPAREN>>), TextNode(<<LPAREN, LPAREN>>),
      TextNode(<<RPAREN, LETTER>>), TextNode(<<LETTER>>),
      Element("br", <<>>) }

\* the bodies of text and line breaks that hold a parenthesis and no link
ParenBodies ==
    {ks \in UNION {[1..n -> ParenNodes] : n \in 1..3} :
        /\ NoAdjacentText(ks)
        /\ \E k \in 1..Len(ks) :
               \E m \in 1..Len(ks[k].data) : ks[k].data[m] \in {LPAREN, RPAREN}}

\* the bodies of the documents, the empty document among them
MixedBodies ==
    {<<>>} \cup UntidyLists \cup SpanBodies \cup MemberBodies \cup LinkBodies
    \cup ParenBodies

MixedInit ==
    /\ root \in {ParsedDocument(ks) : ks \in MixedBodies}
    /\ convLength \in ConvLengths
    /\ pc = "convert"
    /\ body = <<>>
    /\ cursor = 0
    /\ convLines = <<>>
    /\ text = <<>>
    /\ convWrapped = <<>>
    /\ returned = <<>>
    /\ NoCallReturned
    /\ WrapIdle
    /\ FixIdle

MixedSpec == MixedInit /\ [][Next]_vars

\* ------------------------------------------------------------------------
\* Convert with every loop stepped: the loop of doConvert over the children
\* of body, tidyLoop of fixSpacing and the loops of WordWrap
\* ------------------------------------------------------------------------
\* most children of the body of a document built from RunNodes
MaxWalk == 2

\* the nodes the bodies are built from
RunNodes ==
    { TextNode(<<LETTER, LETTER, LETTER, LETTER, LETTER>>),
      TextNode(<<LETTER, SP, LETTER, LETTER, SP, LETTER>>),
      TextNode(<<NL, SP>>),
      Element("span", <<TextNode(<<LETTER, SP>>)>>),
      Element("p", <<TextNode(<<LETTER>>)>>),
      Element("li", <<TextNode(<<LETTER>>)>>),
      AnchorNode(<<"b">>, <<>>),
      CommentNode(StartMarker),
      CommentNode(EndMarker) }

\* longer bodies: an empty link before paragraphs, a list with blank lines
\* in the source, a span run before a paragraph, a hidden block, a text
\* with invisible runes
RunExtraBodies ==
    { <<AnchorNode(<<"b">>, <<>>), TextNode(<<NL>>),
        Element("p", <<TextNode(<<LETTER>>)>>), TextNode(<<NL>>),
        Element("p", <<TextNode(<<LETTER>>)>>)>>,
      <<Element("li", <<TextNode(<<LETTER>>)>>), TextNode(<<NL>>),
        Element("li", <<TextNode(<<LETTER>>)>>)>>,
      <<Element("span", <<TextNode(<<LETTER>>)>>), TextNode(<<NL>>),
        Element("span", <<AnchorNode(<<"b">>, <<>>)>>),
        Element("p", <<TextNode(<<LETTER>>)>>)>>,
      <<TextNode(<<LETTER>>), CommentNode(StartMarker),
        Element("span", <<TextNode(<<LETTER>>)>>),
        Element("p", <<TextNode(<<LETTER>>)>>), CommentNode(EndMarker),
        TextNode(<<LETTER>>)>>,
      <<TextNode(<<LETTER, SP, CGJ, SP, FSP, LETTER>>)>> }

RunBodies ==
    {ks \in SeqsUpTo(RunNodes, MaxWalk) : NoAdjacentText(ks)}
    \cup RunExtraBodies

RunLengths == {0, 1, MaxLineLength}

RunInit ==
    /\ root \in {ParsedDocument(ks) : ks \in RunBodies}
    /\ convLength \in RunLengths
    /\ pc = "convert"
    /\ body = <<>>
    /\ cursor = 0
    /\ convLines = <<>>
    /\ text = <<>>
    /\ convWrapped = <<>>
    /\ returned = <<>>
    /\ NoCallReturned
    /\ WrapIdle
    /\ FixIdle

\* doConvert(body): for c := n.FirstChild
WalkBegin ==
    /\ pc = "render"
    /\ cursor' = 1
    /\ convLines' = <<>>
    /\ pc' = "walk"
    /\ UNCHANGED <<root, convLength, convErr, regexpReturned, regexpErr, body, text, convWrapped, returned,
                   wrapVars, fixVars>>

\* one iteration of the loop, which goes on with a later sibling
WalkChild ==
    /\ pc = "walk"
    /\ cursor <= Len(body[1].kids)
    /\ WalkStep(body[1].kids, cursor, convLines).next # 0
    /\ cursor' = WalkStep(body[1].kids, cursor, convLines).next
    /\ convLines' = WalkStep(body[1].kids, cursor, convLines).parts
    /\ UNCHANGED <<pc, root, convLength, convErr, regexpReturned, regexpErr, body, text, convWrapped, returned,
                   wrapVars, fixVars>>

\* an iteration at a span whose run reaches the last sibling: wrapSpans
\* returns nil and doConvert returns inside the loop
WalkReturnInRun ==
    /\ pc = "walk"
    /\ cursor <= Len(body[1].kids)
    /\ WalkStep(body[1].kids, cursor, convLines).next = 0
    /\ convLines' = WalkStep(body[1].kids, cursor, convLines).parts
    /\ pc' = "normalize"
    /\ UNCHANGED <<root, convLength, convErr, regexpReturned, regexpErr, body, cursor, text, convWrapped, returned,
                   wrapVars, fixVars>>

\* c == nil: the loop is over, doConvert returns
WalkReturn ==
    /\ pc = "walk"
    /\ cursor > Len(body[1].kids)
    /\ pc' = "normalize"
    /\ UNCHANGED <<root, convLength, convErr, regexpReturned, regexpErr, body, cursor, convLines, text, convWrapped,
                   returned, wrapVars, fixVars>>

\* the call t.fixSpacing(strings.Join(lines, ""))
CallFixSpacing ==
    /\ pc = "normalize"
    /\ rt' = JoinEmpty(convLines)
    /\ pc' = "fix"
    /\ UNCHANGED <<processed, idx, i, inList, fixed, wrapVars, convVars>>

\* text := the text fixSpacing returned; the call
\* WordWrap(strings.TrimSpace(text), lineLength)
CallWordWrap ==
    /\ pc = "fixed"
    /\ text' = fixed
    /\ txt' = TrimSpace(fixed)
    /\ lineLength' = convLength
    /\ pc' = "start"
    /\ UNCHANGED <<lines, lineNo, startIndex, endIndex, final, wrapped,
                   rewrapped, fixVars, root, convLength, convErr, regexpReturned,
                   regexpErr, body, cursor,
                   convLines, convWrapped, returned>>

\* wrapped := the text WordWrap returned
WordWrapReturned ==
    /\ pc = "returned"
    /\ convWrapped' = wrapped
    /\ pc' = "open"
    /\ UNCHANGED <<root, convLength, convErr, regexpReturned, regexpErr, body, cursor, convLines, text, returned,
                   wrapVars, fixVars>>

\* the steps of a run of Convert.  The step of WordWrap that panics is not
\* among them: it needs a run of spaces, and the text fixSpacing returns,
\* once trimmed, has none; WindowInRange says so of every state.
RunNext ==
    \/ ConvertNoBody
    \/ ConvertFindBody
    \/ WalkBegin
    \/ WalkChild
    \/ WalkReturnInRun
    \/ WalkReturn
    \/ CallFixSpacing
    \/ FixShort
    \/ FixBegin
    \/ FixSwallowIndent
    \/ FixSwallowBlank
    \/ FixSwallowListNewline
    \/ FixSwallowSpace
    \/ FixRewriteSpace
    \/ FixDropInvisible
    \/ FixAppend
    \/ FixReturn
    \/ CallWordWrap
    \/ WrapReturnUnchanged
    \/ WrapBegin
    \/ WrapNoBreak
    \/ WrapBreak
    \/ WrapNextLine
    \/ WrapReturn
    \/ WordWrapReturned
    \/ ConvertOpenBraces
    \/ ConvertCloseBraces

RunSpec == RunInit /\ [][RunNext]_vars

\* the program is sequential: whenever it has a next step, it takes it
RunLive == RunSpec /\ WF_vars(RunNext)

\* every window line[startIndex:endIndex+1] WordWrap takes in a run of
\* Convert is in range
WindowInRange ==
    (pc = "line" /\ LoopCond(lines[lineNo], lineLength, startIndex, endIndex)) =>
        SliceOK(lines[lineNo], startIndex,
                NextEnd(lines[lineNo], lineLength, endIndex) + 1)

\* the stepped run and the operators compute the same conversion
RunStepsAgree ==
    pc = "done" /\ findBody(root) # <<>> =>
        /\ convLines = doConvert(body[1])
        /\ text = fixSpacing(JoinEmpty(convLines))
        /\ WordWrap(TrimSpace(text), convLength).ok
        /\ returned =
               ReplaceAll(ReplaceAll(WordWrap(TrimSpace(text), convLength).val,
                                     <<LPAREN, NL>>, <<NL, LPAREN, SP>>),
                          <<NL, RPAREN>>, <<SP, RPAREN, NL>>)

\* ------------------------------------------------------------------------
\* Claims about WordWrap
\* ------------------------------------------------------------------------
HasSpace(line) == \E k \in 1..Len(line) : line[k] = SP

\* the line holds a space between two of its words: a place where it could
\* have been broken
HasBreak(line) ==
    \E k \in 2..(Len(line) - 1) :
        /\ line[k] = SP
        /\ \E a \in 1..(k - 1) : line[a] # SP
        /\ \E b \in (k + 1)..Len(line) : line[b] # SP

\* C1: after WordWrap(text, N) with N > 0 every output line has length <= N,
\* except a line that is a single unbroken token longer than N (a line
\* with no space to break on: leading and trailing spaces are not counted
\* against the line).
C1_LinesWithinLimit ==
    (pc = "returned" /\ lineLength > 0) =>
        \A k \in 1..Len(Split(wrapped)) :
            Len(Split(wrapped)[k]) <= lineLength \/ ~HasBreak(Split(wrapped)[k])

\* out is t with some runs of one or more spaces replaced by one newline
\* each, and nothing else changed
RECURSIVE BreaksOnlyAtSpaces(_, _)
BreaksOnlyAtSpaces(t, out) ==
    IF Len(out) = 0 THEN Len(t) = 0
    ELSE IF Len(t) = 0 THEN FALSE
    ELSE IF t[1] = out[1] THEN BreaksOnlyAtSpaces(Tail(t), Tail(out))
    ELSE /\ out[1] = NL
         /\ t[1] = SP
         /\ \E m \in 1..Len(t) :
                /\ \A j \in 1..m : t[j] = SP
                /\ BreaksOnlyAtSpaces(SubSeq(t, m + 1, Len(t)), Tail(out))

\* C2: WordWrap with N > 0 never splits a word: every newline it inserts
\* takes the place of one or more spaces of the input line, and every other
\* character of the input is returned unchanged and in place.
C2_NeverSplitsWord ==
    (pc = "returned" /\ lineLength > 0) => BreaksOnlyAtSpaces(txt, wrapped)

\* a returned text in which a token longer than N stands whole on a line
\* that follows an inserted break
C2_Witness ==
    /\ pc = "returned"
    /\ lineLength > 0
    /\ Len(Split(wrapped)) > Len(Split(txt))
    /\ \E k \in 1..Len(Split(wrapped)) :
           /\ Len(Split(wrapped)[k]) > lineLength
           /\ ~HasSpace(Split(wrapped)[k])

\* C3: WordWrap is idempotent: WordWrap(WordWrap(text, N), N) equals
\* WordWrap(text, N).
C3_Idempotent ==
    pc = "rewrapped" => (rewrapped.ok /\ rewrapped.val = wrapped)

\* C4: for every lineLength <= 0 (zero included) WordWrap returns the text
\* unchanged.
C4_DisabledReturnsInput ==
    lineLength <= 0 =>
        /\ pc # "panic"
        /\ pc \in {"returned", "rewrapped"} => wrapped = txt

\* a call with lineLength <= 0 has returned for a text that holds a space
\* and a newline
C4_Witness ==
    /\ pc = "returned"
    /\ lineLength <= 0
    /\ HasSpace(txt)
    /\ Len(Split(txt)) > 1
    /\ Len(txt) > 3

\* t without its spaces and newlines
RECURSIVE Strip(_)
Strip(t) ==
    IF Len(t) = 0 THEN <<>>
    ELSE IF t[1] \in {SP, NL} THEN Strip(Tail(t))
    ELSE <<t[1]>> \o Strip(Tail(t))

\* C5: WordWrap never removes or reorders non-whitespace characters:
\* deleting all spaces and newlines from WordWrap(text, N) gives the same
\* string as deleting them from text.
C5_KeepsNonWhitespace ==
    pc = "returned" => Strip(wrapped) = Strip(txt)

\* a returned text that differs from the input: a break was made
C5_Witness ==
    /\ pc = "returned"
    /\ wrapped # txt
    /\ Len(Strip(txt)) >= 3

\* ------------------------------------------------------------------------
\* Claims about fixSpacing
\* ------------------------------------------------------------------------
\* C8: the output of fixSpacing contains no two consecutive plain spaces,
\* at any position.
C8_NoDoubleSpace ==
    pc = "fixed" =>
        \A k \in 1..(Len(fixed) - 1) : ~(fixed[k] = SP /\ fixed[k + 1] = SP)

\* C9: the output of fixSpacing contains no space or tab immediately after
\* a newline, at any position.
C9_NoIndentAfterNewline ==
    pc = "fixed" =>
        \A k \in 1..(Len(fixed) - 1) :
            ~(fixed[k] = NL /\ fixed[k + 1] \in {SP, TAB})

\* C10: the output of fixSpacing contains no run of three or more
\* consecutive newlines, including newlines produced by rewriting a space
\* that is followed by a tab or newline.
C10_NoTripleNewline ==
    pc = "fixed" =>
        \A k \in 1..(Len(fixed) - 2) :
            ~(fixed[k] = NL /\ fixed[k + 1] = NL /\ fixed[k + 2] = NL)

\* a returned text whose input held a space followed by three newlines, so
\* that the space was rewritten and newlines were dropped, and whose output
\* holds a blank line
C10_Witness ==
    /\ pc = "fixed"
    /\ \E k \in 2..(Len(rt) - 3) :
           rt[k] = SP /\ rt[k + 1] = NL /\ rt[k + 2] = NL /\ rt[k + 3] = NL
    /\ \E k \in 1..(Len(fixed) - 1) : fixed[k] = NL /\ fixed[k + 1] = NL

\* C11: fixSpacing never lengthens its input and returns a result for every
\* text: the returned text has at most as many runes as the argument, and
\* while tidyLoop runs every index it reads (processed[idx], processed[idx-1],
\* runes[i-1]) is in range, so no iteration panics.
C11_NeverLengthens ==
    /\ pc = "fixed" => Len(fixed) <= Len(rt)
    /\ pc = "tidy" =>
           /\ idx >= 1
           /\ idx = Len(processed) - 1
           /\ Len(processed) <= i
           /\ i <= Len(rt)

\* a returned text at least two runes shorter than the argument, one of
\* them dropped where a space was rewritten into a newline
C11_Witness ==
    /\ pc = "fixed"
    /\ Len(fixed) + 2 <= Len(rt)
    /\ \E k \in 3..Len(rt) : rt[k - 1] = SP /\ rt[k] = NL
    /\ \E k \in 1..Len(fixed) : fixed[k] = NL

\* ------------------------------------------------------------------------
\* Claims about TreeConverter.Convert
\* ------------------------------------------------------------------------
\* C6: the text returned by TreeConverter.Convert is trimmed: it has no
\* leading and no trailing whitespace (space, tab or newline), also after
\* the post-wrap fixups have run.
C6_ReturnedTrimmed ==
    (pc = "done" /\ Len(returned) > 0) =>
        /\ returned[1] \notin {SP, TAB, NL}
        /\ returned[Len(returned)] \notin {SP, TAB, NL}

\* the maximal whitespace-free pieces of t are all of length <= n
WordsWithin(t, n) ==
    \A a \in 1..Len(t) : \A b \in a..Len(t) :
        (\A k \in a..b : t[k] \notin WhiteSpace) => b - a + 1 <= n

\* C7: for a document whose rendered words are each no longer than
\* lineLength N > 0, no line of the text returned by Convert is longer
\* than N.
C7_ReturnedWithinLimit ==
    (/\ pc = "done"
     /\ convLength > 0
     /\ WordsWithin(JoinEmpty(convLines), convLength)) =>
        \A k \in 1..Len(Split(returned)) : Len(Split(returned)[k]) <= convLength
\* ------------------------------------------------------------------------
\* Claims about the elements
\* ------------------------------------------------------------------------
\* the children of the body of the document converted
BodyKids == root.kids[1].kids[2].kids

\* the children ks are list items with whitespace between them
IsItemRun(ks) ==
    /\ \E k \in 1..Len(ks) : ks[k].type = "element"
    /\ \A k \in 1..Len(ks) :
           \/ ks[k].type = "text" /\ TrimSpace(ks[k].data) = <<>>
           \/ /\ ks[k].type = "element"
              /\ ks[k].tag = "li"
              /\ Len(ks[k].kids) = 1
              /\ ks[k].kids[1].type = "text"

\* the lines "* " + item text of the items among ks, in order
RECURSIVE ItemLines(_)
ItemLines(ks) ==
    IF Len(ks) = 0 THEN <<>>
    ELSE IF ks[1].type = "element"
         THEN <<<<STAR, SP>> \o ks[1].kids[1].data>> \o ItemLines(Tail(ks))
    ELSE ItemLines(Tail(ks))

\* the items of a body that is a list: its own children, or those of the
\* ul or ol it holds
ListOf(ks) ==
    IF Len(ks) = 1 /\ ks[1].type = "element" /\ ks[1].tag \in {"ul", "ol"}
    THEN ks[1].kids
    ELSE ks

\* every line fits the line length n, or wrapping is off
LinesFit(ls, n) == n <= 0 \/ \A k \in 1..Len(ls) : Len(ls[k]) <= n

\* C12: consecutive list items stay tight: for a document that is a list
\* (inside ul, inside ol, or bare li) the returned text has one line
\* "* " + item text per item and exactly one newline between two consecutive
\* items, whatever whitespace separates the items in the source.
C12_ListItemsTight ==
    (/\ pc = "done"
     /\ IsItemRun(ListOf(BodyKids))
     /\ LinesFit(ItemLines(ListOf(BodyKids)), convLength)) =>
        returned = Join(ItemLines(ListOf(BodyKids)))
\* the children ks are n paragraphs (p or div) of one text each, with
\* whitespace between them
IsParagraphRun(ks, n) ==
    /\ Cardinality({k \in 1..Len(ks) : ks[k].type = "element"}) = n
    /\ \A k \in 1..Len(ks) :
           \/ ks[k].type = "text" /\ TrimSpace(ks[k].data) = <<>>
           \/ /\ ks[k].type = "element"
              /\ ks[k].tag \in {"p", "div"}
              /\ Len(ks[k].kids) = 1
              /\ ks[k].kids[1].type = "text"

\* the elements among ks, in order
Elements(ks) == SelectSeq(ks, LAMBDA c : c.type = "element")

\* the number of characters of t that are not whitespace
Ink(t) == Cardinality({k \in 1..Len(t) : t[k] \notin WhiteSpace})

\* t without its whitespace
RECURSIVE InkOf(_)
InkOf(t) ==
    IF Len(t) = 0 THEN <<>>
    ELSE IF t[1] \in WhiteSpace THEN InkOf(Tail(t))
    ELSE <<t[1]>> \o InkOf(Tail(t))

\* the index in t of its n-th character that is not whitespace, counted
\* from index k on; 0 when there is none
RECURSIVE NthInk(_, _, _)
NthInk(t, n, k) ==
    IF k > Len(t) THEN 0
    ELSE IF t[k] \in WhiteSpace THEN NthInk(t, n, k + 1)
    ELSE IF n = 1 THEN k
    ELSE NthInk(t, n - 1, k + 1)

\* C13: in the returned text the texts of two consecutive paragraphs (p or
\* div) are separated by exactly one blank line (two newlines), whatever
\* whitespace separates them in the source and whatever their text is; a
\* document with a single paragraph yields just its text, with no
\* whitespace around it.
C13_ParagraphsOneBlankLine ==
    /\ (pc = "done" /\ IsParagraphRun(BodyKids, 2)) =>
           LET first == Elements(BodyKids)[1].kids[1].data
               a == NthInk(returned, Ink(first), 1)
               b == NthInk(returned, Ink(first) + 1, 1)
           IN  /\ a > 0
               /\ b > a
               /\ SubSeq(returned, a + 1, b - 1) = <<NL, NL>>
    /\ (pc = "done" /\ IsParagraphRun(BodyKids, 1)) =>
           /\ InkOf(returned) = InkOf(Elements(BodyKids)[1].kids[1].data)
           /\ returned = TrimSpace(returned)
\* the body is one anchor, and doConvert has returned its fragments
AnchorRendered ==
    /\ pc \notin {"convert", "render"}
    /\ Len(BodyKids) = 1
    /\ BodyKids[1].type = "element"
    /\ BodyKids[1].tag = "a"

\* the trimmed inner text of the anchor: what its children render as
InnerText == TrimSpace(JoinEmpty(doConvert(BodyKids[1])))

\* the href of the anchor without a leading "mailto:"
Target == TrimPrefix(getAttr(BodyKids[1], "href"), Mailto)

\* C14: an anchor whose trimmed inner text is non-empty and differs from its
\* non-empty href renders as text + " ( " + trimmed href + " )", the href
\* being taken without a leading "mailto:"; when the line needs no wrapping
\* and the target is not empty, Convert returns just that.
C14_LinkTextAndTarget ==
    (/\ AnchorRendered
     /\ getAttr(BodyKids[1], "href") # <<>>
     /\ InnerText # <<>>
     /\ InnerText # Target) =>
        LET link == InnerText \o <<SP, LPAREN, SP>> \o TrimSpace(Target)
                        \o <<SP, RPAREN>>
        IN  /\ JoinEmpty(convLines) = link
            /\ (/\ pc = "done"
                /\ TrimSpace(Target) # <<>>
                /\ LinesFit(<<link>>, convLength)) => returned = link

\* an anchor with the href "mailto:b" and the inner text "a" has been
\* converted
C14_Witness ==
    /\ AnchorRendered
    /\ pc = "done"
    /\ getAttr(BodyKids[1], "href") = Mailto \o <<"b">>
    /\ InnerText = <<LETTER>>
    /\ returned = <<LETTER, SP, LPAREN, SP, "b", SP, RPAREN>>

\* C15: an anchor whose inner text equals its href, compared case-sensitively
\* after trimming both, renders as the href alone, with no parenthesised
\* copy of the href.
C15_SameTextAndTarget ==
    (/\ AnchorRendered
     /\ InnerText # <<>>
     /\ InnerText = TrimSpace(Target)) =>
        /\ TrimSpace(JoinEmpty(convLines)) = TrimSpace(Target)
        /\ \A k \in 1..Len(JoinEmpty(convLines)) :
               JoinEmpty(convLines)[k] # LPAREN

\* C16: an anchor with a non-empty href whose inner text is empty after
\* trimming renders as "( " + href + " )" when its subtree contains an image
\* element and contributes nothing otherwise: no fragment, and Convert
\* returns the empty text.
C16_EmptyLink ==
    (/\ AnchorRendered
     /\ Target # <<>>
     /\ InnerText = <<>>) =>
        IF \E k \in 1..Len(BodyKids[1].kids) :
               \/ BodyKids[1].kids[k].tag = "img"
               \/ \E m \in 1..Len(BodyKids[1].kids[k].kids) :
                      BodyKids[1].kids[k].kids[m].tag = "img"
        THEN JoinEmpty(convLines) = <<LPAREN, SP>> \o Target \o <<SP, RPAREN>>
        ELSE /\ convLines = <<>>
             /\ pc = "done" => returned = <<>>

\* an anchor whose only image stands inside a span has been rendered as the
\* parenthesised href
C16_Witness ==
    /\ AnchorRendered
    /\ Target = <<"b">>
    /\ InnerText = <<>>
    /\ Len(BodyKids[1].kids) = 1
    /\ BodyKids[1].kids[1].tag = "span"
    /\ convLines = <<<<LPAREN, SP, "b", SP, RPAREN>>>>
\* the body is one heading, and doConvert has returned its fragments
HeadingRendered ==
    /\ pc \notin {"convert", "render"}
    /\ Len(BodyKids) = 1
    /\ BodyKids[1].type = "element"
    /\ BodyKids[1].tag \in {"h1", "h2", "h3", "h4", "h5", "h6"}

\* the trimmed heading text: what the children of the heading render as
Title == TrimSpace(JoinEmpty(doConvert(BodyKids[1])))

\* n is the length of the longest line of t, each line taken without the
\* whitespace around it
LongestLine(t, n) ==
    /\ \A k \in 1..Len(Split(t)) : Len(TrimSpace(Split(t)[k])) <= n
    /\ \E k \in 1..Len(Split(t)) : Len(TrimSpace(Split(t)[k])) = n

\* C17: a heading renders as two newlines; for h1 and h2 only, a delimiter
\* line; the trimmed heading text; a delimiter line; two newlines.  The
\* delimiter is '*' repeated for h1 and '-' repeated for h2 to h6, as long
\* as the longest line of the heading text, the same above and below; when
\* the heading text is already normalized and needs no wrapping, Convert
\* returns the block without the newlines around it.
C17_HeadingBlock ==
    HeadingRendered =>
        \E n \in 0..Len(Title) :
            LET mark == IF BodyKids[1].tag = "h1" THEN STAR ELSE "-"
                above == IF BodyKids[1].tag \in {"h1", "h2"}
                         THEN Repeat(mark, n) \o <<NL>>
                         ELSE <<>>
                block == above \o Title \o <<NL>> \o Repeat(mark, n)
            IN  /\ LongestLine(Title, n)
                /\ JoinEmpty(convLines) = <<NL, NL>> \o block \o <<NL, NL>>
                /\ (/\ pc = "done"
                    /\ Title = fixSpacing(Title)
                    /\ LinesFit(Split(Title), convLength)) =>
                       returned = TrimSpace(block)

\* an h1 whose text has a line of three characters and a line of one has
\* been converted
C17_Witness ==
    /\ HeadingRendered
    /\ pc = "done"
    /\ BodyKids[1].tag = "h1"
    /\ returned = <<STAR, STAR, STAR, NL, LETTER, LETTER, LETTER, NL, LETTER,
                    NL, STAR, STAR, STAR>>
\* C18: hidden block: when a comment "start text/html" is followed among its
\* later siblings by a comment "end text/html", no sibling between the two
\* markers contributes text, neither to the fragments nor to the returned
\* text, wherever the markers stand among the children of a node (also
\* directly after a span or a text).
C18_HiddenBlockSkipped ==
    (pc \notin {"convert", "render"} /\ BodyKids \in HiddenBodies) =>
        /\ \A k \in 1..Len(JoinEmpty(convLines)) :
               JoinEmpty(convLines)[k] # HIDDEN
        /\ \A k \in 1..Len(returned) : returned[k] # HIDDEN
\* ------------------------------------------------------------------------
\* Claims about the run of Convert
\* ------------------------------------------------------------------------
\* C19: conversion terminates for every document and every lineLength: the
\* loop of doConvert goes on with a later sibling on every iteration (also
\* when a span run hands the cursor back and when a link is empty), every
\* iteration of tidyLoop goes on with a later rune, every iteration of
\* WordWrap's loop moves endIndex forward, no window of WordWrap is out of
\* range, and every run reaches Convert's return.
C19_Terminates ==
    /\ [][/\ (pc = "walk" /\ pc' = "walk") => cursor' > cursor
          /\ (pc = "tidy" /\ pc' = "tidy") => i' > i
          /\ (pc = "line" /\ pc' = "line") =>
                 (endIndex' > endIndex \/ lineNo' > lineNo)]_vars
    /\ []WindowInRange
    /\ <>(pc = "done")

\* a run has returned for a body in which a span run, holding an empty
\* link, handed the cursor back to the loop at a paragraph
C19_Witness ==
    /\ pc = "done"
    /\ Len(BodyKids) = 4
    /\ BodyKids[1].tag = "span"
    /\ BodyKids[4].tag = "p"
    /\ cursor = 5
    /\ returned = <<LETTER, NL, LETTER>>
\* ------------------------------------------------------------------------
\* Both converters on one document
\* ------------------------------------------------------------------------
\* the children html.Parse gives the head
HeadKids ==
    { <<>>,
      <<Element("title", <<TextNode(<<LETTER>>)>>)>>,
      <<Element("title", <<TextNode(<<LETTER>>)>>),
        Element("style", <<TextNode(<<LETTER, SP, LETTER>>)>>)>> }

\* documents without and with children of the body
BothBodies == {<<>>} \cup {<<c>> : c \in ConvNodes}

BothInit ==
    /\ root \in {ParsedPage(hs, ks) : hs \in HeadKids, ks \in BothBodies}
    /\ convLength \in ConvLengths
    /\ pc = "convert"
    /\ body = <<>>
    /\ cursor = 0
    /\ convLines = <<>>
    /\ text = <<>>
    /\ convWrapped = <<>>
    /\ returned = <<>>
    /\ NoCallReturned
    /\ WrapIdle
    /\ FixIdle

\* RegexpConverter.Convert on the document TreeConverter.Convert has
\* returned for, bodyElement == nil: return "", ErrBodyNotFound.  (With a
\* body it goes on to render the tree and rewrite the markup, which is not
\* part of this model.)
RegexpConvertNoBody ==
    /\ pc = "done"
    /\ bodyElement(root) = <<>>
    /\ regexpReturned' = <<>>
    /\ regexpErr' = ErrBodyNotFound
    /\ pc' = "both"
    /\ UNCHANGED <<root, convLength, convErr, cursor, body, convLines, text,
                   convWrapped, returned, wrapVars, fixVars>>

BothNext ==
    \/ Next
    \/ RegexpConvertNoBody

BothSpec == BothInit /\ [][BothNext]_vars

\* ------------------------------------------------------------------------
\* Claims about the two converters
\* ------------------------------------------------------------------------
\* C20: for a document in which no body element is found,
\* TreeConverter.Convert and RegexpConverter.Convert return the same text
\* and the same error value.
C20_OneMissingBodyPolicy ==
    (pc = "both" /\ findBody(root) = <<>>) =>
        /\ returned = regexpReturned
        /\ convErr = regexpErr

\* both converters look for the body in the same documents
BothFindTheSameBody == findBody(root) = bodyElement(root)
\* ------------------------------------------------------------------------
\* Claims about the windows of WordWrap
\* ------------------------------------------------------------------------
\* C21: WordWrap returns a result for every text and every N >= 1: at every
\* window computation line[startIndex : endIndex+1] the indices satisfy
\* startIndex <= endIndex+1 <= len(line), and no call ends in a panic.
C21_WindowsInRange ==
    /\ pc # "panic"
    /\ (/\ pc = "line"
        /\ lineLength >= 1
        /\ LoopCond(lines[lineNo], lineLength, startIndex, endIndex)) =>
           LET e2 == NextEnd(lines[lineNo], lineLength, endIndex)
           IN  startIndex <= e2 + 1 /\ e2 + 1 <= Len(lines[lineNo])
\* ------------------------------------------------------------------------
\* Claims about the list mode of fixSpacing
\* ------------------------------------------------------------------------
\* the line of the text t that is being written: what follows its last
\* newline
LastLine(t) ==
    LET nls == {k \in 1..Len(t) : t[k] = NL}
    IN  SubSeq(t, MaxOf(nls) + 1, Len(t))

\* C22: whenever a "* " marker has been emitted at the start of an output
\* line (at the start of the text or after a newline), inList is true, and
\* it stays true while that line is written.
C22_InListAfterMarker ==
    (pc = "tidy" /\ HasPrefix(LastLine(processed), <<STAR, SP>>)) =>
        inList = TRUE
\* the next text of t from index k (0-based) on that is not whitespace is
\* a "* " marker
NextContentIsMarker(t, k) ==
    LET ink == {m \in k..(Len(t) - 1) : At(t, m) \notin {TAB, SP, NL}}
    IN  /\ ink # {}
        /\ LET m == CHOOSE x \in ink : \A y \in ink : x <= y
           IN  /\ At(t, m) = STAR
               /\ m + 1 < Len(t)
               /\ At(t, m + 1) = SP

\* C23: the list lookahead is bounded by the next content: in list mode a
\* newline is dropped only if, skipping whitespace, the next non-whitespace
\* text is a "* " marker, also when a "* " occurs somewhere later in the
\* text.
C23_LookaheadStopsAtContent ==
    (/\ pc = "tidy"
     /\ i < Len(rt)
     /\ FixCase(rt, i, processed, idx, inList) = "list") =>
        NextContentIsMarker(rt, i)
\* ------------------------------------------------------------------------
\* Claims about the fragments of list items and of runs of spans
\* ------------------------------------------------------------------------
\* the children ks are list items that hold at most one text
IsUntidyRun(ks) ==
    /\ Len(ks) > 0
    /\ \A k \in 1..Len(ks) :
           /\ ks[k].type = "element"
           /\ ks[k].tag = "li"
           /\ \/ Len(ks[k].kids) = 0
              \/ Len(ks[k].kids) = 1 /\ ks[k].kids[1].type = "text"

\* the content of such an item
ItemContent(li) == IF Len(li.kids) = 0 THEN <<>> ELSE li.kids[1].data

\* C24: a list item renders as the marker "* ", then its content with
\* leading and trailing whitespace removed, then exactly one newline, also
\* when the content begins with spaces or a newline and when it is empty.
C24_ItemFragment ==
    (/\ pc \notin {"convert", "render"}
     /\ IsUntidyRun(ListOf(BodyKids))) =>
        /\ Len(convLines) = Len(ListOf(BodyKids))
        /\ \A k \in 1..Len(ListOf(BodyKids)) :
               k <= Len(convLines) =>
                   convLines[k] = <<STAR, SP>>
                                    \o TrimSpace(ItemContent(ListOf(BodyKids)[k]))
                                    \o <<NL>>
\* the children ks are a run of spans that hold one text each, and texts
IsSpanRun(ks) ==
    /\ Len(ks) > 0
    /\ ks[1].type = "element"
    /\ \A k \in 1..Len(ks) :
           \/ ks[k].type = "text"
           \/ /\ ks[k].type = "element"
              /\ ks[k].tag = "span"
              /\ Len(ks[k].kids) = 1
              /\ ks[k].kids[1].type = "text"

\* the run of a body: its own children, or those of the paragraph it holds
RunOf(ks) ==
    IF Len(ks) = 1 /\ ks[1].type = "element" /\ ks[1].tag = "p"
    THEN ks[1].kids
    ELSE ks

\* the text of a member of a run
PieceText(c) == IF c.type = "text" THEN c.data ELSE c.kids[1].data

\* WordWrap has nothing to break in the normalized text
NothingToWrap == convLength <= 0 \/ Len(TrimSpace(text)) <= convLength

\* t is one line whose words are a single space apart
OneLogicalLine(t) ==
    /\ \A k \in 1..Len(t) : t[k] # NL
    /\ \A k \in 1..(Len(t) - 1) : ~(t[k] = SP /\ t[k + 1] = SP)

\* C25: a contiguous run of span elements and the text between them is
\* merged on one logical line: in the returned text the texts of the spans
\* of one run are separated by single spaces and never by a newline, also
\* when a span's content or the text between two spans begins or ends with
\* newlines.
C25_SpansOnOneLine ==
    (/\ pc = "done"
     /\ IsSpanRun(RunOf(BodyKids))
     /\ NothingToWrap) =>
        OneLogicalLine(returned)

\* t has no newline and no tab before the end of its text
TidyPiece(t) ==
    \A k \in 1..Len(TrimRight(t, {NL, TAB, SP})) : t[k] \notin {NL, TAB}

\* C25, amended: the run is merged on one logical line when no span's
\* content and no text between two spans has a newline or a tab before the
\* end of its text; newlines and tabs that end a span's content or a text
\* between two spans become a single space.
C25_SpansOnOneLineTrailing ==
    (/\ pc = "done"
     /\ IsSpanRun(RunOf(BodyKids))
     /\ \A k \in 1..Len(RunOf(BodyKids)) :
            TidyPiece(PieceText(RunOf(BodyKids)[k]))
     /\ NothingToWrap) =>
        OneLogicalLine(returned)

\* a run whose first span ends with a newline and whose spans have a text
\* of newlines and a tab between them has returned on one line
C25_Witness ==
    /\ pc = "done"
    /\ Len(BodyKids) = 3
    /\ IsSpanRun(BodyKids)
    /\ PieceText(BodyKids[1]) = <<LETTER, NL>>
    /\ PieceText(BodyKids[2]) = <<NL, TAB, NL>>
    /\ PieceText(BodyKids[3]) = <<LETTER>>
    /\ NothingToWrap
    /\ returned = <<LETTER, SP, LETTER>>
\* the characters of t that are texts of members, in order
RECURSIVE MemberInk(_)
MemberInk(t) ==
    IF Len(t) = 0 THEN <<>>
    ELSE IF \E k \in 1..Len(MemberLetters) : MemberLetters[k] = t[1]
         THEN <<t[1]>> \o MemberInk(Tail(t))
    ELSE MemberInk(Tail(t))

\* the texts of the members of ks that no rule skips, in document order
RECURSIVE RenderedMembers(_)
RenderedMembers(ks) ==
    IF Len(ks) = 0 THEN <<>>
    ELSE IF ks[1].type = "comment" \/ ks[1].tag = "script"
         THEN RenderedMembers(Tail(ks))
    ELSE IF ks[1].type = "text"
         THEN ks[1].data \o RenderedMembers(Tail(ks))
    ELSE ks[1].kids[1].data \o RenderedMembers(Tail(ks))

\* C26: every child that no rule skips is rendered exactly once and in
\* document order, in the fragments and in the returned text: when a span
\* run ends at a differently-tagged element, the fragments of the run come
\* first and that element is rendered once; when the run reaches the last
\* sibling nothing is emitted twice.
C26_EachChildOnce ==
    BodyKids \in MemberBodies =>
        /\ pc \notin {"convert", "render"} =>
               MemberInk(JoinEmpty(convLines)) = RenderedMembers(BodyKids)
        /\ pc = "done" => MemberInk(returned) = RenderedMembers(BodyKids)
\* a run of a span and a text has ended at a paragraph, and Convert has
\* returned the three texts once each
C26_Witness ==
    /\ pc = "done"
    /\ BodyKids = <<Member("span", 1), Member("text", 2), Member("p", 3)>>
    /\ convLines = <<<<"a">>, <<"b">>, <<NL>>, <<"c">>, <<NL, NL>>>>
    /\ returned = <<"a", "b", NL, "c">>
\* ------------------------------------------------------------------------
\* Claims about the invisible separators
\* ------------------------------------------------------------------------
\* r is a run of invisible characters interleaved with plain spaces
InvisibleRun(r) ==
    /\ Len(r) > 0
    /\ r[1] \in Invisible
    /\ r[Len(r)] \in Invisible
    /\ \A k \in 1..Len(r) : r[k] \in Invisible \cup {SP}

\* w is made of letters only
LettersOnly(w) == \A k \in 1..Len(w) : w[k] = LETTER

\* C27: invisible separator runs collapse to nothing: for every input text
\* the output of fixSpacing contains none of U+034F, U+00AD, U+2007, and
\* a run of these characters interleaved with plain spaces contributes no
\* character: letters, such a run, letters gives the letters alone.
C27_InvisibleRunsVanish ==
    pc = "fixed" =>
        /\ \A k \in 1..Len(fixed) : fixed[k] \notin Invisible
        /\ \A a \in 0..Len(rt) : \A b \in a..Len(rt) :
               (/\ LettersOnly(SubSeq(rt, 1, a))
                /\ InvisibleRun(SubSeq(rt, a + 1, b))
                /\ LettersOnly(SubSeq(rt, b + 1, Len(rt)))) =>
                   fixed = SubSeq(rt, 1, a) \o SubSeq(rt, b + 1, Len(rt))
\* ------------------------------------------------------------------------
\* Claims about the fixups after wrapping
\* ------------------------------------------------------------------------
\* w occurs in t
Contains(t, w) ==
    \E k \in 0..(Len(t) - Len(w)) : SubSeq(t, k + 1, k + Len(w)) = w

\* t has no "(" directly before a newline and no ")" directly after one
NoParenAtBreak(t) ==
    \A k \in 1..(Len(t) - 1) :
        /\ ~(t[k] = LPAREN /\ t[k + 1] = NL)
        /\ ~(t[k] = NL /\ t[k + 1] = RPAREN)

\* C28: wherever the wrapper breaks a rendered link, the returned text has
\* "( href )" together on one line, and the returned text contains no "("
\* directly followed by a newline and no ")" directly preceded by a
\* newline.
C28_LinkTargetOnOneLine ==
    pc = "done" =>
        /\ NoParenAtBreak(returned)
        /\ BodyKids \in LinkBodies =>
               \A k \in 1..Len(BodyKids) :
                   BodyKids[k].tag = "a" =>
                       Contains(returned,
                                <<LPAREN, SP>> \o getAttr(BodyKids[k], "href")
                                    \o <<SP, RPAREN>>)

\* C29: the fixups change only link targets that the wrapper split: for a
\* document without links the returned text is what WordWrap produced, also
\* where a parenthesis of the text stood next to a newline before wrapping.
C29_TextOutsideLinksKept ==
    (pc = "done" /\ BodyKids \in ParenBodies) =>
        returned = WordWrap(TrimSpace(text), convLength).val
\* ------------------------------------------------------------------------
\* Claims about links without destination
\* ------------------------------------------------------------------------
\* C30: a link without destination degrades to plain text: an anchor with
\* an empty href renders as its children's fragments unchanged, and no
\* anchor is rendered with an empty parenthesised target, also for an href
\* that is only "mailto:" or only whitespace.
C30_NoEmptyTarget ==
    AnchorRendered =>
        /\ getAttr(BodyKids[1], "href") = <<>> =>
               convLines = doConvert(BodyKids[1])
        /\ ~Contains(JoinEmpty(convLines), <<LPAREN, SP, SP, RPAREN>>)
        /\ pc = "done" => ~Contains(returned, <<LPAREN, SP, RPAREN>>)
====
